---------------------------- MODULE Spec2Model ----------------------------
(***************************************************************************)
(* The turtle-walk engine of data_walker (class Turtle3D and its callers   *)
(* compute_walk / compute_walk_features), as duplicated in the scripts     *)
(* under src/scripts.                                                      *)
(*                                                                         *)
(* Numbers.  The scripts compute in IEEE doubles (numpy, scipy).  The      *)
(* model computes in binary fixed point with FracBits fractional bits: a   *)
(* real x is the integer round(x * 2^FracBits).  Products of two scaled    *)
(* numbers are rounded to nearest, as a floating-point product is, so an   *)
(* orientation is a 3x3 matrix that is orthonormal only up to rounding.    *)
(* A scipy Rotation is modelled by its rotation matrix: from_rotvec builds *)
(* it (Rodrigues' formula), `p * q` is the matrix product (q applied       *)
(* first), apply is the matrix-vector product.                             *)
(***************************************************************************)
EXTENDS Integers, Sequences, FiniteSets, TLC

(***************************************************************************)
(* Bounds of the model.                                                    *)
(***************************************************************************)
MaxSteps == 3        \* move calls made on one Turtle3D by the client
NegDigits == 3       \* digits passed to move range over -NegDigits..DigitHi
DigitHi == 14
FracBits == 12       \* fractional bits of the fixed-point numbers
MaxLen == 7          \* longest base12_seq handed to compute_walk
MaxPointsHi == 3     \* max_points ranges over 1..MaxPointsHi
MaxTwoSteps == 4     \* move calls made on two Turtle3D objects together
MaxNotes == 2        \* MIDI note lists have up to MaxNotes notes
MidiSpan == 13       \* MIDI notes range over -MidiSpan..MidiSpan
MaxBases == 3        \* DNA strings have up to MaxBases letters
MaxSymbols == 3      \* L-system strings have up to MaxSymbols symbols
MaxBits == 12        \* binary words are generated up to MaxBits bits
MaxCapMultiple == 2  \* digit lists up to MaxCapMultiple times the cap, plus 1
NumSources == 2      \* entries of the table of URLs a download script walks
LenSlack == 1        \* stream lengths within LenSlack of a script's threshold
MaxShort == 2        \* every DNA string of up to MaxShort letters is fetched
MaxExtra == 6        \* and patterned ones up to MaxExtra letters past a window

Digits == (0 - NegDigits)..DigitHi

(***************************************************************************)
(* Fixed-point arithmetic.                                                 *)
(***************************************************************************)
Scale == 2^FracBits

\* round-to-nearest quotient n / d, for d > 0 (\div is the floor quotient)
RoundDiv(n, d) == (2 * n + d) \div (2 * d)

\* cos and sin of np.radians(15), scaled by 2^24
COS15_Q24 == 16205546
SIN15_Q24 == 4342263

Cos15 == RoundDiv(COS15_Q24, 2^(24 - FracBits))
Sin15 == RoundDiv(SIN15_Q24, 2^(24 - FracBits))

Abs(x) == IF x < 0 THEN -x ELSE x

VecAdd(p, q) == <<p[1] + q[1], p[2] + q[2], p[3] + q[3]>>

\* an integer vector such as [1,0,0] as a fixed-point vector
ScaleVec(v) == <<v[1] * Scale, v[2] * Scale, v[3] * Scale>>

\* squared Euclidean distance of two fixed-point points, scaled by Scale^2
DistSq(p, q) ==
    (p[1] - q[1]) * (p[1] - q[1]) + (p[2] - q[2]) * (p[2] - q[2])
        + (p[3] - q[3]) * (p[3] - q[3])

(***************************************************************************)
(* scipy.spatial.transform.Rotation, as used by Turtle3D.                  *)
(***************************************************************************)
Rotation_identity ==
    << <<Scale, 0, 0>>, <<0, Scale, 0>>, <<0, 0, Scale>> >>

\* Rotation.from_rotvec(a * np.radians(15)) for a unit axis a (fixed point):
\* R = cos*I + (1 - cos) * a a^T + sin * [a]x
CrossMat(a) ==
    << <<0, -a[3], a[2]>>, <<a[3], 0, -a[1]>>, <<-a[2], a[1], 0>> >>

RotvecEntry(a, i, j) ==
    (IF i = j THEN Cos15 ELSE 0)
    + RoundDiv((Scale - Cos15) * RoundDiv(a[i] * a[j], Scale), Scale)
    + RoundDiv(Sin15 * CrossMat(a)[i][j], Scale)

Rotation_from_rotvec(a) ==
    << <<RotvecEntry(a, 1, 1), RotvecEntry(a, 1, 2), RotvecEntry(a, 1, 3)>>,
       <<RotvecEntry(a, 2, 1), RotvecEntry(a, 2, 2), RotvecEntry(a, 2, 3)>>,
       <<RotvecEntry(a, 3, 1), RotvecEntry(a, 3, 2), RotvecEntry(a, 3, 3)>> >>

\* p * q : the composition that applies q first, then p
MulEntry(p, q, i, j) ==
    RoundDiv(p[i][1] * q[1][j] + p[i][2] * q[2][j] + p[i][3] * q[3][j], Scale)

\* the entry-by-entry product of the two matrices
Rotation_mul_elementwise(p, q) ==
    << <<RoundDiv(p[1][1] * q[1][1], Scale), RoundDiv(p[1][2] * q[1][2], Scale),
         RoundDiv(p[1][3] * q[1][3], Scale)>>,
       <<RoundDiv(p[2][1] * q[2][1], Scale), RoundDiv(p[2][2] * q[2][2], Scale),
         RoundDiv(p[2][3] * q[2][3], Scale)>>,
       <<RoundDiv(p[3][1] * q[3][1], Scale), RoundDiv(p[3][2] * q[3][2], Scale),
         RoundDiv(p[3][3] * q[3][3], Scale)>> >>

Rotation_mul(p, q) ==
    << <<MulEntry(p, q, 1, 1), MulEntry(p, q, 1, 2), MulEntry(p, q, 1, 3)>>,
       <<MulEntry(p, q, 2, 1), MulEntry(p, q, 2, 2), MulEntry(p, q, 2, 3)>>,
       <<MulEntry(p, q, 3, 1), MulEntry(p, q, 3, 2), MulEntry(p, q, 3, 3)>> >>

\* r.apply(v) for an integer vector v (entries 0, 1, -1): no rounding occurs
ApplyEntry(r, v, i) == r[i][1] * v[1] + r[i][2] * v[2] + r[i][3] * v[3]

Rotation_apply(r, v) ==
    <<ApplyEntry(r, v, 1), ApplyEntry(r, v, 2), ApplyEntry(r, v, 3)>>

\* r.apply(w) for a fixed-point vector w
Rotation_apply_fx(r, w) ==
    <<RoundDiv(ApplyEntry(r, w, 1), Scale), RoundDiv(ApplyEntry(r, w, 2), Scale),
      RoundDiv(ApplyEntry(r, w, 3), Scale)>>

(***************************************************************************)
(* The mapping constants of the scripts, and the mappings of the model.    *)
(* A Python list is a sequence; index k of the list is element k + 1.      *)
(***************************************************************************)
IDENTITY_MAPPING == <<0, 1, 2, 3, 4, 5, 6, 7, 8, 9, 10, 11>>
\* the table with slot 8 copied from slot 10 instead of exchanged with it
OPTIMAL_MAPPING_copied == <<0, 1, 2, 3, 4, 5, 6, 7, 10, 9, 10, 11>>

OPTIMAL_MAPPING == <<0, 1, 2, 3, 4, 5, 6, 7, 10, 9, 8, 11>>
SPIRAL_MAPPING == <<0, 2, 4, 6, 8, 10, 1, 3, 5, 7, 9, 11>>

ValidMappings == {IDENTITY_MAPPING, OPTIMAL_MAPPING, SPIRAL_MAPPING}

IsValidMapping(m) ==
    /\ Len(m) = 12
    /\ \A k \in 1..12 : m[k] \in 0..11
    /\ \A k, l \in 1..12 : m[k] = m[l] => k = l

\* mappings a careless caller could pass: duplicated values, values outside
\* 0..11 (too large, negative), a list that is too short or too long
MalformedMappings ==
    { <<0, 0, 0, 0, 0, 0, 0, 0, 0, 0, 0, 0>>,
      <<0, 1, 2, 3, 4, 5, 6, 7, 8, 9, 10, 10>>,
      <<0, 1, 2, 3, 4, 5, 6, 7, 8, 9, 10, 12>>,
      <<-1, 1, 2, 3, 4, 5, 6, 7, 8, 9, 10, 11>>,
      <<-7, 1, 2, 3, 4, 5, 6, 7, 8, 9, 10, 11>>,
      <<0, 1, 2, 3, 4, 5>>,
      <<0, 1, 2, 3, 4, 5, 6, 7, 8, 9, 10, 11, 12>> }

(***************************************************************************)
(* class Turtle3D.                                                         *)
(***************************************************************************)
\* a table with a mistyped row (a diagonal direction)
local_dirs_typo ==
    << <<1, 0, 0>>, <<-1, 0, 0>>, <<0, 1, 0>>, <<0, -1, 0>>,
       <<0, 0, 1>>, <<0, 1, -1>> >>

local_dirs ==
    << <<1, 0, 0>>, <<-1, 0, 0>>, <<0, 1, 0>>, <<0, -1, 0>>,
       <<0, 0, 1>>, <<0, 0, -1>> >>

\* the axis table with the signs lost: each axis twice
axes_unsigned ==
    << <<1, 0, 0>>, <<1, 0, 0>>, <<0, 1, 0>>, <<0, 1, 0>>,
       <<0, 0, 1>>, <<0, 0, 1>> >>

\* the axis table with its signs exchanged: -X before +X, and so on
axes_signs_swapped ==
    << <<-1, 0, 0>>, <<1, 0, 0>>, <<0, -1, 0>>, <<0, 1, 0>>,
       <<0, 0, -1>>, <<0, 0, 1>> >>

axes ==
    << <<1, 0, 0>>, <<-1, 0, 0>>, <<0, 1, 0>>, <<0, -1, 0>>,
       <<0, 0, 1>>, <<0, 0, -1>> >>

\* a constructor that leaves the path empty
Turtle3D_init_nopath ==
    [position |-> <<0, 0, 0>>,
     rotation |-> Rotation_identity,
     path |-> <<>>,
     raised |-> "none"]

\* Turtle3D.__init__ ; `raised` is the exception a later move propagated
Turtle3D_init ==
    [position |-> <<0, 0, 0>>,
     rotation |-> Rotation_identity,
     path |-> << <<0, 0, 0>> >>,
     raised |-> "none"]

Raise(self) == [self EXCEPT !.raised = "IndexError"]

\* translate along the world axis: the orientation is not applied
translate_world(self, d) ==
    IF d < -6
    THEN Raise(self)
    ELSE LET row == IF d < 0 THEN d + 6 ELSE d
             world_dir == ScaleVec(local_dirs[row + 1])
         IN  [self EXCEPT !.position = VecAdd(self.position, world_dir)]

\* d < 6 : self.position = self.position + self.rotation.apply(local_dirs[d]).
\* local_dirs is a numpy array of 6 rows: an index in -6..-1 counts from the
\* end, any other index outside 0..5 raises IndexError.
translate(self, d) ==
    IF d < -6
    THEN Raise(self)
    ELSE LET row == IF d < 0 THEN d + 6 ELSE d
             world_dir == Rotation_apply(self.rotation, local_dirs[row + 1])
         IN  [self EXCEPT !.position = VecAdd(self.position, world_dir)]

\* the composition in the other order: self.rotation * delta
rotate_swapped(self, d) ==
    IF d - 6 > 5
    THEN Raise(self)
    ELSE LET delta == Rotation_from_rotvec(ScaleVec(axes[d - 6 + 1]))
         IN  [self EXCEPT !.rotation = Rotation_mul(self.rotation, delta)]

\* a turn that also carries the position around the origin
rotate_orbit(self, d) ==
    IF d - 6 > 5
    THEN Raise(self)
    ELSE LET delta == Rotation_from_rotvec(ScaleVec(axes[d - 6 + 1]))
         IN  [self EXCEPT !.rotation = Rotation_mul(delta, self.rotation),
                          !.position = Rotation_apply_fx(delta, self.position)]

\* the axis row taken one too far: axes[d - 5]
rotate_off_by_one(self, d) ==
    IF d - 5 > 5
    THEN Raise(self)
    ELSE LET delta == Rotation_from_rotvec(ScaleVec(axes[d - 5 + 1]))
         IN  [self EXCEPT !.rotation = Rotation_mul(delta, self.rotation)]

\* d >= 6 : self.rotation = Rotation.from_rotvec(axes[d-6] * radians(15))
\*                          * self.rotation.
\* axes is a Python list of 6 rows: index d - 6 > 5 raises IndexError.
rotate(self, d) ==
    IF d - 6 > 5
    THEN Raise(self)
    ELSE LET delta == Rotation_from_rotvec(ScaleVec(axes[d - 6 + 1]))
         IN  [self EXCEPT !.rotation = Rotation_mul(delta, self.rotation)]

\* append only when the turtle has moved
append_path_if_moved(self) ==
    IF self.raised # "none" \/ self.position = self.path[Len(self.path)]
    THEN self
    ELSE [self EXCEPT !.path = Append(self.path, self.position)]

\* self.path.append(self.position.copy()) ; not reached after a raise
append_path(self) ==
    IF self.raised # "none"
    THEN self
    ELSE [self EXCEPT !.path = Append(self.path, self.position)]

\* the index taken from the magnitude of the digit
digit_index_abs(direction) == Abs(direction) % 12

\* the list index direction % 12 (Python's %, never negative)
digit_index(direction) == direction % 12

\* Turtle3D.move(direction, mapping)
move(self, direction, mapping) ==
    LET idx == digit_index(direction) IN
    IF idx >= Len(mapping)
    THEN Raise(self)
    ELSE LET d == mapping[idx + 1] IN
         append_path(IF d < 6 THEN translate(self, d) ELSE rotate(self, d))

(***************************************************************************)
(* State.                                                                  *)
(***************************************************************************)
VARIABLES
    position,     \* Turtle3D.position
    rotation,     \* Turtle3D.rotation
    path,         \* Turtle3D.path
    raised,       \* "none", or the exception that ended the walk
    mapping,      \* the mapping of the walk
    direction,    \* the digit passed to the latest move call
    ncalls,       \* move calls made so far
    pc,           \* position of compute_walk / compute_walk_features
    entry,        \* which walk entry point runs
    base12_seq,   \* its argument
    max_points,   \* its argument
    seq,          \* base12_seq[::step]
    result,       \* what it returned
    heap,         \* the numpy arrays allocated so far, by reference
    turtles,      \* the Turtle3D objects of SpecTwo, fields by reference
    run           \* the script being run: its locals and the files it made

vars == <<position, rotation, path, raised, mapping, direction, ncalls,
          pc, entry, base12_seq, max_points, seq, result, heap, turtles,
          run>>

turtleVars == <<position, rotation, path, raised>>
callVars == <<pc, entry, base12_seq, max_points, seq, result>>
objVars == <<heap, turtles>>
walkVars == <<turtleVars, mapping, direction, ncalls, callVars, objVars>>

None == "None"

self_ == [position |-> position, rotation |-> rotation, path |-> path,
          raised |-> raised]

SetTurtle(t) ==
    /\ position' = t.position
    /\ rotation' = t.rotation
    /\ path' = t.path
    /\ raised' = t.raised

(***************************************************************************)
(* Spec: one Turtle3D, driven by a client that calls move with any digit.  *)
(***************************************************************************)
NoCall ==
    /\ pc = "client"
    /\ entry = None
    /\ base12_seq = <<>>
    /\ max_points = 0
    /\ seq = <<>>
    /\ result = None
    /\ heap = <<>>
    /\ turtles = <<>>
    /\ run = <<>>

InitTurtle ==
    /\ position = Turtle3D_init.position
    /\ rotation = Turtle3D_init.rotation
    /\ path = Turtle3D_init.path
    /\ raised = Turtle3D_init.raised
    /\ direction = None
    /\ ncalls = 0

Init ==
    /\ InitTurtle
    /\ mapping \in ValidMappings
    /\ NoCall

\* the client calls move(d, mapping); an exception ends the walk
Move(d) ==
    /\ pc = "client"
    /\ raised = "none"
    /\ ncalls < MaxSteps
    /\ SetTurtle(move(self_, d, mapping))
    /\ direction' = d
    /\ ncalls' = ncalls + 1
    /\ UNCHANGED <<mapping, callVars, objVars, run>>

Next == \E d \in Digits : Move(d)

Spec == Init /\ [][Next]_vars

\* the same client, handed any mapping, well-formed or not
InitAnyMapping ==
    /\ InitTurtle
    /\ mapping \in ValidMappings \cup MalformedMappings
    /\ NoCall

SpecAnyMapping == InitAnyMapping /\ [][Next]_vars

(***************************************************************************)
(* SpecCW: one call of a walk entry point, compute_walk (the same in every *)
(* script that has it) or compute_walk_features (dna_walk_base12.py).      *)
(***************************************************************************)
Entries == {"compute_walk", "compute_walk_features"}

\* the digit streams handed to the entry points: arithmetic progressions of
\* base-12 digits of every length up to MaxLen
PatternSeq(len, a, b) == [i \in 1..len |-> (a + b * (i - 1)) % 12]

InputSeqs ==
    {PatternSeq(len, a, b) : len \in 0..MaxLen, a \in {0, 6, 9}, b \in {1, 5}}

\* mapping=None, the default argument of compute_walk
NoMapping == <<>>

Pending == [value |-> "pending"]
NoneResult == [value |-> "None"]

Max(a, b) == IF a >= b THEN a ELSE b
Min(a, b) == IF a <= b THEN a ELSE b

\* step = max(1, len(base12_seq) // max_points)
stride(s, mp) == Max(1, Len(s) \div mp)

\* s[step-1::step] : every step-th element, counted from the first block's end
Slice_block_end(s, step) ==
    [j \in 1..(Len(s) \div step) |-> s[j * step]]

\* s[::step] : the elements of s at the indices 0, step, 2*step, ...
Slice(s, step) ==
    [j \in 1..((Len(s) + step - 1) \div step) |-> s[(j - 1) * step + 1]]

RECURSIVE ColMax(_, _, _), ColMin(_, _, _)
ColMax(p, c, n) == IF n = 1 THEN p[1][c] ELSE Max(p[n][c], ColMax(p, c, n - 1))
ColMin(p, c, n) == IF n = 1 THEN p[1][c] ELSE Min(p[n][c], ColMin(p, c, n - 1))

\* path[:, c].max() - path[:, c].min()
Range(p, c) == ColMax(p, c, Len(p)) - ColMin(p, c, Len(p))

\* the dict with the digits cut to the points: base12 = digits[:len(points)-1]
WalkDict_consumed(t_path, digits) ==
    [value |-> "dict", points |-> t_path,
     base12 |-> SubSeq(digits, 1, Len(t_path) - 1)]

\* the dict compute_walk returns
WalkDict(t_path, digits) ==
    [value |-> "dict", points |-> t_path, base12 |-> digits]

\* the dict compute_walk_features returns (of its features, the ranges; the
\* others, max_dist, final_dist, compactness and flatness, are not modelled)
FeaturesDict(t_path, sub) ==
    [value |-> "dict", path |-> t_path,
     x_range |-> Range(t_path, 1), y_range |-> Range(t_path, 2),
     z_range |-> Range(t_path, 3), path_length |-> Len(sub)]

InitCW ==
    /\ pc = "call"
    /\ entry \in Entries
    /\ base12_seq \in InputSeqs
    /\ max_points \in 1..MaxPointsHi
    /\ mapping \in (IF entry = "compute_walk"
                    THEN {NoMapping, OPTIMAL_MAPPING}
                    ELSE {SPIRAL_MAPPING})
    /\ seq = <<>>
    /\ result = Pending
    /\ position = <<>>
    /\ rotation = <<>>
    /\ path = <<>>
    /\ raised = "none"
    /\ direction = None
    /\ ncalls = 0
    /\ heap = <<>>
    /\ turtles = <<>>
    /\ run = <<>>

\* compute_walk_features: if len(base12_seq) == 0: return None
ReturnNone ==
    /\ pc = "call"
    /\ entry = "compute_walk_features"
    /\ Len(base12_seq) = 0
    /\ result' = NoneResult
    /\ pc' = "done"
    /\ UNCHANGED <<turtleVars, mapping, direction, ncalls, entry, base12_seq,
                   max_points, seq, objVars, run>>

\* the subsampling done on the caller's list: base12_seq[:] = base12_seq[::step]
Subsample_in_place ==
    /\ pc = "call"
    /\ entry = "compute_walk_features" => Len(base12_seq) # 0
    /\ mapping' = IF mapping = NoMapping THEN IDENTITY_MAPPING ELSE mapping
    /\ seq' = Slice(base12_seq, stride(base12_seq, max_points))
    /\ base12_seq' = seq'
    /\ SetTurtle(Turtle3D_init)
    /\ pc' = "loop"
    /\ UNCHANGED <<direction, ncalls, entry, max_points, result, objVars,
                   run>>

\* the default mapping, the stride, the subsampled list, the fresh Turtle3D
Subsample ==
    /\ pc = "call"
    /\ entry = "compute_walk_features" => Len(base12_seq) # 0
    /\ mapping' = IF mapping = NoMapping THEN IDENTITY_MAPPING ELSE mapping
    /\ seq' = Slice(base12_seq, stride(base12_seq, max_points))
    /\ SetTurtle(Turtle3D_init)
    /\ pc' = "loop"
    /\ UNCHANGED <<direction, ncalls, entry, base12_seq, max_points, result,
                   objVars, run>>

\* one iteration of `for d in seq: t.move(d, mapping)`
LoopMove ==
    /\ pc = "loop"
    /\ ncalls < Len(seq)
    /\ LET t == move(self_, seq[ncalls + 1], mapping) IN
         /\ SetTurtle(t)
         /\ pc' = IF t.raised # "none" THEN "raised" ELSE "loop"
    /\ direction' = seq[ncalls + 1]
    /\ ncalls' = ncalls + 1
    /\ UNCHANGED <<mapping, entry, base12_seq, max_points, seq, result,
                   objVars, run>>

\* the loop is over: build and return the dict
Return ==
    /\ pc = "loop"
    /\ ncalls = Len(seq)
    /\ result' = IF entry = "compute_walk"
                 THEN WalkDict(path, base12_seq)
                 ELSE FeaturesDict(path, seq)
    /\ pc' = "done"
    /\ UNCHANGED <<turtleVars, mapping, direction, ncalls, entry, base12_seq,
                   max_points, seq, objVars, run>>

NextCW == ReturnNone \/ Subsample \/ LoopMove \/ Return

SpecCW == InitCW /\ [][NextCW]_vars

(***************************************************************************)
(* SpecTwo: two Turtle3D objects in one interpreter, their move calls      *)
(* interleaved in any order.  Here a numpy array is an object of the heap, *)
(* held by reference: `self.position = self.position + w` binds a new      *)
(* array (generate_math_walks.py and the scripts that share its class),    *)
(* `self.position += w` updates the array in place (dna_walk_base12.py),   *)
(* and .copy() allocates.  A Rotation is immutable and is held by value.   *)
(***************************************************************************)
Variants == {"rebind", "inplace"}

\* the digits the two clients pass: a negative one, a translation, a turn
TwoDigits == {-1, 0, 6}

TwoMappings == {IDENTITY_MAPPING, SPIRAL_MAPPING}

\* the reference of the array that the next allocation creates
NewRef(h) == Len(h) + 1

\* Turtle3D() with one array shared by every instance as the start position
Turtle3D_new_shared(h, variant, m) ==
    LET pos == 1
        h1 == IF h = <<>> THEN Append(h, <<0, 0, 0>>) ELSE h
        h2 == Append(h1, h1[pos])
    IN  [heap |-> h2,
         t |-> [variant |-> variant, mapping |-> m, position |-> pos,
                rotation |-> Rotation_identity, path |-> <<Len(h2)>>,
                raised |-> "none", fed |-> <<>>]]

\* Turtle3D() with the first path entry the position array itself (no copy)
Turtle3D_new_nocopy(h, variant, m) ==
    LET pos == NewRef(h)
        h1 == Append(h, <<0, 0, 0>>)
    IN  [heap |-> h1,
         t |-> [variant |-> variant, mapping |-> m, position |-> pos,
                rotation |-> Rotation_identity, path |-> <<pos>>,
                raised |-> "none", fed |-> <<>>]]

\* Turtle3D(): position = np.array([0.0, 0.0, 0.0]); rotation = identity;
\* path = [position.copy()].  `fed` records the digits passed to move.
Turtle3D_new(h, variant, m) ==
    LET pos == NewRef(h)
        h1 == Append(h, <<0, 0, 0>>)
        h2 == Append(h1, h1[pos])
    IN  [heap |-> h2,
         t |-> [variant |-> variant, mapping |-> m, position |-> pos,
                rotation |-> Rotation_identity, path |-> <<Len(h2)>>,
                raised |-> "none", fed |-> <<>>]]

\* the fields of the object t as values, for the arithmetic of one branch
Deref(h, t) ==
    [position |-> h[t.position], rotation |-> t.rotation, path |-> <<>>,
     raised |-> t.raised]

\* the in-place class adding the local direction, its orientation not applied
translate_obj_inplace_local(h, t, d) ==
    LET after == IF t.variant = "rebind"
                 THEN translate(Deref(h, t), d)
                 ELSE translate_world(Deref(h, t), d)
    IN
    IF after.raised # "none"
    THEN [heap |-> h, t |-> [t EXCEPT !.raised = after.raised]]
    ELSE IF t.variant = "rebind"
         THEN [heap |-> Append(h, after.position),
               t |-> [t EXCEPT !.position = NewRef(h)]]
         ELSE [heap |-> [h EXCEPT ![t.position] = after.position],
               t |-> t]

\* the translation branch on the heap: `self.position = self.position + w`
\* binds a new array, `self.position += w` writes into the array it has
translate_obj(h, t, d) ==
    LET after == translate(Deref(h, t), d) IN
    IF after.raised # "none"
    THEN [heap |-> h, t |-> [t EXCEPT !.raised = after.raised]]
    ELSE IF t.variant = "rebind"
         THEN [heap |-> Append(h, after.position),
               t |-> [t EXCEPT !.position = NewRef(h)]]
         ELSE [heap |-> [h EXCEPT ![t.position] = after.position],
               t |-> t]

\* the rotation branch: the new Rotation is bound to self.rotation
rotate_obj(h, t, d) ==
    LET after == rotate(Deref(h, t), d) IN
    [heap |-> h,
     t |-> [t EXCEPT !.rotation = after.rotation, !.raised = after.raised]]

\* self.path.append(self.position) : the live array itself is recorded
append_obj_nocopy(s) ==
    IF s.t.raised # "none"
    THEN s
    ELSE [heap |-> s.heap,
          t |-> [s.t EXCEPT !.path = Append(@, s.t.position)]]

\* self.path.append(self.position.copy()) ; not reached after a raise
append_obj(s) ==
    IF s.t.raised # "none"
    THEN s
    ELSE LET h2 == Append(s.heap, s.heap[s.t.position])
         IN  [heap |-> h2, t |-> [s.t EXCEPT !.path = Append(@, Len(h2))]]

\* the branch taken on the raw digit index, the mapping not consulted
move_obj_unmapped(h, t, dgt) ==
    LET d == digit_index(dgt)
        s == append_obj(IF d < 6 THEN translate_obj(h, t, d)
                                 ELSE rotate_obj(h, t, d))
    IN  [heap |-> s.heap, t |-> [s.t EXCEPT !.fed = Append(@, dgt)]]

\* Turtle3D.move(direction, mapping) on the heap
move_obj(h, t, dgt) ==
    LET idx == digit_index(dgt)
        s == IF idx >= Len(t.mapping)
             THEN [heap |-> h, t |-> [t EXCEPT !.raised = "IndexError"]]
             ELSE LET d == t.mapping[idx + 1] IN
                  append_obj(IF d < 6 THEN translate_obj(h, t, d)
                                      ELSE rotate_obj(h, t, d))
    IN  [heap |-> s.heap, t |-> [s.t EXCEPT !.fed = Append(@, dgt)]]

\* what a turtle's fields hold: the arrays behind its references
View(h, t) ==
    [position |-> h[t.position],
     rotation |-> t.rotation,
     path |-> [k \in 1..Len(t.path) |-> h[t.path[k]]],
     raised |-> t.raised]

\* a turtle alone in a fresh interpreter, after the digits ds
RECURSIVE RunAlone(_, _, _)
RunAlone(variant, m, ds) ==
    IF ds = <<>>
    THEN Turtle3D_new(<<>>, variant, m)
    ELSE LET s == RunAlone(variant, m, SubSeq(ds, 1, Len(ds) - 1))
         IN  move_obj(s.heap, s.t, ds[Len(ds)])

ViewAlone(variant, m, ds) ==
    LET s == RunAlone(variant, m, ds) IN View(s.heap, s.t)

\* the walk of the digits ds under the mapping m, by value
\* for d in ds: t.move(d, m) ; the digits are taken in order and an
\* exception ends the loop.  The list is split in two and the first half is
\* walked before the second is begun.
RECURSIVE WalkFrom(_, _, _)
WalkFrom(t, ds, m) ==
    IF Len(ds) = 0 THEN t
    ELSE IF Len(ds) = 1 THEN move(t, ds[1], m)
    ELSE LET half == Len(ds) \div 2
             mid == WalkFrom(t, SubSeq(ds, 1, half), m)
         IN  IF mid.raised # "none"
             THEN mid
             ELSE WalkFrom(mid, SubSeq(ds, half + 1, Len(ds)), m)

Walk(ds, m) == WalkFrom(Turtle3D_init, ds, m)

InitTwo ==
    /\ \E v1 \in Variants, v2 \in Variants, m1 \in TwoMappings,
          m2 \in TwoMappings :
         LET s1 == Turtle3D_new(<<>>, v1, m1)
             s2 == Turtle3D_new(s1.heap, v2, m2)
         IN  /\ heap = s2.heap
             /\ turtles = <<s1.t, s2.t>>
    /\ pc = "two"
    /\ run = <<>>
    /\ entry = None
    /\ base12_seq = <<>>
    /\ max_points = 0
    /\ seq = <<>>
    /\ result = None
    /\ position = <<>>
    /\ rotation = <<>>
    /\ path = <<>>
    /\ raised = "none"
    /\ mapping = <<>>
    /\ direction = None
    /\ ncalls = 0

\* the client of turtle i calls move(d, mapping) on it
MoveTurtle(i, d) ==
    /\ pc = "two"
    /\ ncalls < MaxTwoSteps
    /\ turtles[i].raised = "none"
    /\ LET s == move_obj(heap, turtles[i], d) IN
         /\ heap' = s.heap
         /\ turtles' = [turtles EXCEPT ![i] = s.t]
    /\ ncalls' = ncalls + 1
    /\ UNCHANGED <<turtleVars, mapping, direction, callVars, run>>

NextTwo == \E i \in 1..2 : \E d \in TwoDigits : MoveTurtle(i, d)

SpecTwo == InitTwo /\ [][NextTwo]_vars

(***************************************************************************)
(* SpecEncode: the encoders that turn integer data into base-12 digits,    *)
(* and the cap generate_fractals puts on an L-system's digit list.  The    *)
(* script draws a source, runs one encoder on it and holds the digits.     *)
(***************************************************************************)
\* all sequences over S of length 0..n
SeqsUpTo(S, n) == UNION {[1..k -> S] : k \in 0..n}

Repeat(x, n) == [i \in 1..n |-> x]

\* the remainder that takes the sign of the note, as C's % does
midi_to_base12_trunc(midi_notes) ==
    [k \in 1..Len(midi_notes) |->
        IF midi_notes[k] >= 0
        THEN midi_notes[k] % 12
        ELSE 0 - ((0 - midi_notes[k]) % 12)]

\* return [int(n) % 12 for n in midi_notes]
midi_to_base12(midi_notes) ==
    [k \in 1..Len(midi_notes) |-> midi_notes[k] % 12]

bases == <<"A", "C", "G", "T">>

\* dinuc_map[b1 + b2] = i * 4 + j, the indices of b1 and b2 in 'ACGT'
dinuc_map(b1, b2) ==
    LET i == CHOOSE n \in 1..4 : bases[n] = b1
        j == CHOOSE n \in 1..4 : bases[n] = b2
    IN  (i - 1) * 4 + (j - 1)

InDinucMap(b1, b2) ==
    /\ \E n \in 1..4 : bases[n] = b1
    /\ \E n \in 1..4 : bases[n] = b2

\* for i in range(len(sequence) - 1): if dinuc in dinuc_map:
\*     values.append(dinuc_map[dinuc] % 12)
dna_to_base12_dinuc(sequence) ==
    LET at == SelectSeq([i \in 1..(Len(sequence) - 1) |-> i],
                        LAMBDA i : InDinucMap(sequence[i], sequence[i + 1]))
    IN  [k \in 1..Len(at) |->
            dinuc_map(sequence[at[k]], sequence[at[k] + 1]) % 12]

\* n_rot = max(1, round(angle_degrees / 15)); no integer angle is half way
\* between two multiples of 15, so round() is the nearest integer
n_rot(angle_degrees) == Max(1, RoundDiv(angle_degrees, 15))

\* F, G -> 0 ; + -> [10] * n_rot ; - -> [11] * n_rot ; others skipped
RECURSIVE lsystem_to_base12(_, _)
lsystem_to_base12(str, angle_degrees) ==
    IF str = <<>>
    THEN <<>>
    ELSE LET c == Head(str)
             out == IF c \in {"F", "G"} THEN <<0>>
                    ELSE IF c = "+" THEN Repeat(10, n_rot(angle_degrees))
                    ELSE IF c = "-" THEN Repeat(11, n_rot(angle_degrees))
                    ELSE <<>>
         IN  out \o lsystem_to_base12(Tail(str), angle_degrees)

\* val = bits[i]*8 + bits[i+1]*4 + bits[i+2]*2 + bits[i+3] ; append(val % 12)
\* for i in range(0, len(bits) - 3, 1)
window_b12(bits) ==
    [i \in 1..Max(0, Len(bits) - 3) |->
        (bits[i] * 8 + bits[i + 1] * 4 + bits[i + 2] * 2 + bits[i + 3]) % 12]

\* a_str, b_str = "0", "01"; while len(b_str) < n: a, b = b, b + a
RECURSIVE fib_grow(_, _, _)
fib_grow(a_str, b_str, n) ==
    IF Len(b_str) < n THEN fib_grow(b_str, b_str \o a_str, n) ELSE b_str

\* fib_bits = [int(c) for c in b_str[:n]]
fib_bits(n) ==
    LET b_str == fib_grow(<<0>>, <<0, 1>>, n)
    IN  SubSeq(b_str, 1, Min(n, Len(b_str)))

\* tm = [0]; while len(tm) < n: tm = tm + [1 - x for x in tm]
RECURSIVE tm_grow(_, _)
tm_grow(tm, n) ==
    IF Len(tm) < n
    THEN tm_grow(tm \o [k \in 1..Len(tm) |-> 1 - tm[k]], n)
    ELSE tm

\* the cap of generate_fractals: `if len(b12) > 10000`
FractalCap == 10000

\* if len(b12) > 10000: step = len(b12) // 10000; b12 = b12[::step]
cap_b12(b12) ==
    IF Len(b12) > FractalCap
    THEN Slice(b12, Len(b12) \div FractalCap)
    ELSE b12

\* the digit list of an expanded L-system: digits 0, 10 and 11 in turn
FractalDigits(len) == [i \in 1..len |-> <<0, 10, 11>>[(i % 3) + 1]]

\* lengths around the cap and around its multiples
FractalLens ==
    {k * FractalCap + j : k \in 1..MaxCapMultiple, j \in {-1, 0, 1}}

Encoders ==
    {"midi_to_base12", "dna_to_base12_dinuc", "lsystem_to_base12",
     "fibonacci_word", "thue_morse", "generate_fractals"}

\* the sources an encoder is run on
Sources(e) ==
    IF e = "midi_to_base12"
    THEN SeqsUpTo((0 - MidiSpan)..MidiSpan, MaxNotes)
    ELSE IF e = "dna_to_base12_dinuc"
    THEN SeqsUpTo({"A", "C", "G", "T", "N"}, MaxBases)
    ELSE IF e = "lsystem_to_base12"
    THEN {[str |-> x, angle |-> a] :
            x \in SeqsUpTo({"F", "G", "+", "-", "X"}, MaxSymbols),
            a \in {7, 60, 90}}
    ELSE IF e = "generate_fractals"
    THEN {FractalDigits(len) : len \in FractalLens}
    ELSE 0..MaxBits

\* every variable of the walk engine at rest: the script has made no walk
NoWalk ==
    /\ pc = "script"
    /\ entry = None
    /\ base12_seq = <<>>
    /\ max_points = 0
    /\ seq = <<>>
    /\ result = None
    /\ heap = <<>>
    /\ turtles = <<>>
    /\ position = <<>>
    /\ rotation = <<>>
    /\ path = <<>>
    /\ raised = "none"
    /\ mapping = <<>>
    /\ direction = None
    /\ ncalls = 0

InitEncode ==
    /\ NoWalk
    /\ \E e \in Encoders : \E x \in Sources(e) :
         run = [pc |-> "encode", encoder |-> e, source |-> x, base12 |-> <<>>]

\* the encoder has returned the digits b12
Encoded(b12) ==
    /\ run' = [run EXCEPT !.pc = "encoded", !.base12 = b12]
    /\ UNCHANGED walkVars

EncodeMidi ==
    /\ run.pc = "encode"
    /\ run.encoder = "midi_to_base12"
    /\ Encoded(midi_to_base12(run.source))

EncodeDinuc ==
    /\ run.pc = "encode"
    /\ run.encoder = "dna_to_base12_dinuc"
    /\ Encoded(dna_to_base12_dinuc(run.source))

EncodeLsystem ==
    /\ run.pc = "encode"
    /\ run.encoder = "lsystem_to_base12"
    /\ Encoded(lsystem_to_base12(run.source.str, run.source.angle))

EncodeFibonacci ==
    /\ run.pc = "encode"
    /\ run.encoder = "fibonacci_word"
    /\ Encoded(window_b12(fib_bits(run.source)))

EncodeThueMorse ==
    /\ run.pc = "encode"
    /\ run.encoder = "thue_morse"
    /\ Encoded(window_b12(tm_grow(<<0>>, run.source)))

CapFractal ==
    /\ run.pc = "encode"
    /\ run.encoder = "generate_fractals"
    /\ Encoded(cap_b12(run.source))

NextEncode ==
    \/ EncodeMidi
    \/ EncodeDinuc
    \/ EncodeLsystem
    \/ EncodeFibonacci
    \/ EncodeThueMorse
    \/ CapFractal

SpecEncode == InitEncode /\ [][NextEncode]_vars

(***************************************************************************)
(* SpecDownload: the main loop of a download script (download_cosmos,      *)
(* download_whales, download_amazon, download_birdsong) over its table of  *)
(* sources, and save_js of generate_audio_walks.  What the network and the *)
(* audio libraries do with a source is the environment's choice.           *)
(***************************************************************************)
DownloadScripts ==
    {"download_cosmos", "download_whales", "download_amazon",
     "download_birdsong"}

\* if strain_values is None or len(strain_values) < 100: continue
COSMOS_MIN == 100
\* if base12 and len(base12) > 100
WHALES_MIN == 100
\* if len(base12) > 50
AUDIO_MIN == 50

\* the test a script puts on the length of a digit stream before storing it
passes(script, n) ==
    IF script = "download_cosmos" THEN ~(n < COSMOS_MIN)
    ELSE IF script = "download_whales" THEN n > 0 /\ n > WHALES_MIN
    ELSE n > AUDIO_MIN

Threshold(script) ==
    IF script = "download_cosmos" THEN COSMOS_MIN
    ELSE IF script = "download_whales" THEN WHALES_MIN
    ELSE AUDIO_MIN

StreamLens(script) ==
    (Threshold(script) - LenSlack)..(Threshold(script) + LenSlack)

\* What can happen to one source.
\*   net_error   : urlopen or response.read() raises
\*   read_error  : the bytes arrive but no reader decodes them (gzip for
\*                 cosmos; sf.read; wavfile.read and then sf.read for whales)
\*   fallback_ok : whales only, wavfile.read raises and sf.read succeeds
\*   ok          : decoded, n values or digits
\*   empty       : decoded to an audio array of zero samples, on which
\*                 np.max(np.abs(audio_data)) raises ValueError
\*   nan         : cosmos only, n parsed values of which one is NaN, on which
\*                 int(normalized * 11.99) raises ValueError
Outcomes(script) ==
    {[kind |-> k, n |-> 0] : k \in {"net_error", "read_error"}}
    \cup {[kind |-> "ok", n |-> n] : n \in StreamLens(script)}
    \cup (IF script = "download_cosmos"
          THEN {[kind |-> "nan", n |-> n] : n \in StreamLens(script)}
          ELSE {[kind |-> "empty", n |-> 0]})
    \cup (IF script = "download_whales"
          THEN {[kind |-> "fallback_ok", n |-> n] : n \in StreamLens(script)}
          ELSE {})

NoneRet == [none |-> TRUE, n |-> 0, kind |-> "None"]
Ret(o) == [none |-> FALSE, n |-> o.n, kind |-> o.kind]

\* download_strain_data: everything is inside try ... except Exception:
\* return None; no temporary file is made
download_strain_data(temp, i, o) ==
    [ret |-> IF o.kind \in {"net_error", "read_error"} THEN NoneRet ELSE Ret(o),
     temp |-> temp, made |-> 0]

\* download_audio (download_amazon, download_birdsong): the temporary file
\* is unlinked in the handler of sf.read and after a successful read
download_audio(temp, i, o) ==
    IF o.kind = "net_error"
    THEN [ret |-> NoneRet, temp |-> temp, made |-> 0]
    ELSE IF o.kind = "read_error"
    THEN [ret |-> NoneRet, temp |-> (temp \cup {i}) \ {i}, made |-> 1]
    ELSE [ret |-> Ret(o), temp |-> (temp \cup {i}) \ {i}, made |-> 1]

\* download_and_process_wav: wavfile.read, on an exception sf.read; an
\* exception of sf.read reaches the outer handler, which returns None and
\* does not unlink; os.unlink comes before audio_to_base12, whose exception
\* the outer handler catches as well
download_and_process_wav(temp, i, o) ==
    IF o.kind = "net_error"
    THEN [ret |-> NoneRet, temp |-> temp, made |-> 0]
    ELSE IF o.kind = "read_error"
    THEN [ret |-> NoneRet, temp |-> temp \cup {i}, made |-> 1]
    ELSE IF o.kind = "empty"
    THEN [ret |-> NoneRet, temp |-> (temp \cup {i}) \ {i}, made |-> 1]
    ELSE [ret |-> Ret(o), temp |-> (temp \cup {i}) \ {i}, made |-> 1]

\* the download function of a script
download(script, temp, i, o) ==
    IF script = "download_cosmos" THEN download_strain_data(temp, i, o)
    ELSE IF script = "download_whales" THEN download_and_process_wav(temp, i, o)
    ELSE download_audio(temp, i, o)

\* the rest of the loop body: "skip" (continue, or the if not taken),
\* "store" (the walk is put in the dict), "abort" (an exception leaves main)
loop_body(script, ret) ==
    IF script = "download_whales"
    THEN IF ~ret.none /\ passes(script, ret.n) THEN "store" ELSE "skip"
    ELSE IF script = "download_cosmos"
    THEN IF ret.none \/ ~passes(script, ret.n) THEN "skip"
         ELSE IF ret.kind = "nan" THEN "abort"
         ELSE "store"
    ELSE IF ret.none THEN "skip"
         ELSE IF ret.kind = "empty" THEN "abort"
         ELSE IF passes(script, ret.n) THEN "store"
         ELSE "skip"

InitDownload ==
    /\ NoWalk
    /\ \/ \E sc \in DownloadScripts :
            run = [pc |-> "loop", script |-> sc, i |-> 1, ret |-> NoneRet,
                   temp |-> {}, made |-> 0, attempted |-> <<>>,
                   outcomes |-> <<>>, data |-> {}, writes |-> 0]
       \/ \E d \in SUBSET (1..NumSources) :
            run = [pc |-> "save", script |-> "save_js", i |-> 1,
                   ret |-> NoneRet, temp |-> {}, made |-> 0,
                   attempted |-> <<>>, outcomes |-> <<>>, data |-> d,
                   writes |-> 0]

\* the loop calls the download function on the next source
Fetch(o) ==
    /\ run.pc = "loop"
    /\ run.i <= NumSources
    /\ o \in Outcomes(run.script)
    /\ LET r == download(run.script, run.temp, run.i, o) IN
         run' = [run EXCEPT !.pc = "returned",
                            !.ret = r.ret,
                            !.temp = r.temp,
                            !.made = @ + r.made,
                            !.attempted = Append(@, run.i),
                            !.outcomes = Append(@, o)]
    /\ UNCHANGED walkVars

\* the loop body after the call, up to the next iteration
Body ==
    /\ run.pc = "returned"
    /\ LET what == loop_body(run.script, run.ret) IN
         run' = [run EXCEPT !.pc = IF what = "abort" THEN "aborted" ELSE "loop",
                            !.data = IF what = "store"
                                     THEN @ \cup {run.i} ELSE @,
                            !.i = IF what = "abort" THEN @ ELSE @ + 1]
    /\ UNCHANGED walkVars

\* a save step that opens the file whatever the dict holds
Save_always ==
    /\ run.pc = "loop"
    /\ run.i > NumSources
    /\ run' = [run EXCEPT !.pc = "done", !.writes = @ + 1]
    /\ UNCHANGED walkVars

\* after the loop: if data: with open(output_path, 'w') as f: f.write(content)
Save ==
    /\ run.pc = "loop"
    /\ run.i > NumSources
    /\ run' = [run EXCEPT !.pc = "done",
                          !.writes = IF run.data # {} THEN @ + 1 ELSE @]
    /\ UNCHANGED walkVars

\* save_js: if not data: return ; with open(out, 'w') as f: f.write(js)
SaveJs ==
    /\ run.pc = "save"
    /\ run' = [run EXCEPT !.pc = "done",
                          !.writes = IF run.data = {} THEN @ ELSE @ + 1]
    /\ UNCHANGED walkVars

NextDownload ==
    \/ \E sc \in DownloadScripts : \E o \in Outcomes(sc) : Fetch(o)
    \/ Body
    \/ Save
    \/ SaveJs

SpecDownload == InitDownload /\ [][NextDownload]_vars

(***************************************************************************)
(* SpecDna: the main loop of dna_walk_base12.py over the fetched           *)
(* sequences: three encodings of each, a walk for every encoding that      *)
(* yields digits.                                                          *)
(***************************************************************************)
\* the rows of CODON_TO_AA, in the order of its keys: T, C, A, G nested
CODON_TO_AA_values ==
    << "F", "F", "L", "L", "S", "S", "S", "S", "Y", "Y", "*", "*",
       "C", "C", "*", "W", "L", "L", "L", "L", "P", "P", "P", "P",
       "H", "H", "Q", "Q", "R", "R", "R", "R", "I", "I", "I", "M",
       "T", "T", "T", "T", "N", "N", "K", "K", "S", "S", "R", "R",
       "V", "V", "V", "V", "A", "A", "A", "A", "D", "D", "E", "E",
       "G", "G", "G", "G" >>

codon_letters == <<"T", "C", "A", "G">>

CodonIndex(b) == CHOOSE n \in 1..4 : codon_letters[n] = b

CODON_TO_AA(b1, b2, b3) ==
    CODON_TO_AA_values[16 * (CodonIndex(b1) - 1) + 4 * (CodonIndex(b2) - 1)
                       + CodonIndex(b3)]

\* AA_HYDRO, the Kyte-Doolittle values in tenths
AA_HYDRO(aa) ==
    CASE aa = "I" -> 45 [] aa = "V" -> 42 [] aa = "L" -> 38 [] aa = "F" -> 28
      [] aa = "C" -> 25 [] aa = "M" -> 19 [] aa = "A" -> 18 [] aa = "G" -> -4
      [] aa = "T" -> -7 [] aa = "S" -> -8 [] aa = "W" -> -9 [] aa = "Y" -> -13
      [] aa = "P" -> -16 [] aa = "H" -> -32 [] aa = "E" -> -35
      [] aa = "Q" -> -35 [] aa = "D" -> -35 [] aa = "N" -> -35
      [] aa = "K" -> -39 [] aa = "R" -> -45 [] aa = "*" -> 0

SeqMaxOf(values) ==
    CHOOSE x \in {values[k] : k \in 1..Len(values)} :
        \A k \in 1..Len(values) : x >= values[k]

SeqMinOf(values) ==
    CHOOSE x \in {values[k] : k \in 1..Len(values)} :
        \A k \in 1..Len(values) : x <= values[k]

\* if len(values) == 0: return [] ; if arr_max == arr_min: return [6] * len ;
\* normalized = (arr - arr_min) / (arr_max - arr_min) ;
\* (normalized * 11.99).astype(int).  The values are in a common unit, which
\* the quotient cancels.
normalize_to_base12(values) ==
    IF Len(values) = 0
    THEN <<>>
    ELSE LET arr_min == SeqMinOf(values)
             arr_max == SeqMaxOf(values)
         IN  IF arr_max = arr_min
             THEN Repeat(6, Len(values))
             ELSE [k \in 1..Len(values) |->
                     ((values[k] - arr_min) * 1199)
                         \div ((arr_max - arr_min) * 100)]

\* for i in range(0, len(sequence) - 2, 3): hydro of codon sequence[i:i+3]
dna_to_base12_codon(sequence) ==
    normalize_to_base12(
        [k \in 1..(Len(sequence) \div 3) |->
            AA_HYDRO(CODON_TO_AA(sequence[3 * k - 2], sequence[3 * k - 1],
                                 sequence[3 * k]))])

\* window_size=30, the default of dna_to_base12_gc_window
GC_WINDOW == 30

\* the number of G and C among the letters i..j
GcCount(sequence, i, j) ==
    Cardinality({k \in i..j : sequence[k] \in {"G", "C"}})

\* for i in range(0, len(sequence) - window_size + 1, window_size // 3):
\*     gc = (G and C in sequence[i:i + window_size]) / len(window)
dna_to_base12_gc_window(sequence, window_size) ==
    LET hop == window_size \div 3
        count == IF Len(sequence) < window_size
                 THEN 0
                 ELSE (Len(sequence) - window_size) \div hop + 1
    IN  normalize_to_base12(
            [k \in 1..count |->
                GcCount(sequence, (k - 1) * hop + 1,
                        (k - 1) * hop + window_size)])

\* max_points=5000, the default of compute_walk_features
DEFAULT_MAX_POINTS == 5000

\* compute_walk_features(base12_seq, mapping, max_points)
compute_walk_features(b12, m, mp) ==
    IF Len(b12) = 0
    THEN NoneResult
    ELSE LET sub == Slice(b12, stride(b12, mp))
         IN  FeaturesDict(Walk(sub, m).path, sub)

\* the walk stored for an encoding: walk['base12'] = [int(x) for x in b12]
WithBase12(walk, b12) ==
    [value |-> walk.value, path |-> walk.path, x_range |-> walk.x_range,
     y_range |-> walk.y_range, z_range |-> walk.z_range,
     path_length |-> walk.path_length, base12 |-> b12]

\* the block of an encoding without its `if b12:`
store_encoding_unguarded(encodings, enc_name, b12) ==
    LET walk == compute_walk_features(b12, SPIRAL_MAPPING, DEFAULT_MAX_POINTS)
    IN  IF walk = NoneResult
        THEN [encodings |-> encodings, raised |-> "TypeError"]
        ELSE [encodings |-> (enc_name :> WithBase12(walk, b12)) @@ encodings,
              raised |-> "none"]

\* if b12: walk = compute_walk_features(b12); walk['base12'] = ...;
\*         results[name]['encodings'][enc_name] = walk
\* Subscripting None raises TypeError.
store_encoding(encodings, enc_name, b12) ==
    IF b12 # <<>>
    THEN LET walk == compute_walk_features(b12, SPIRAL_MAPPING,
                                           DEFAULT_MAX_POINTS)
         IN  IF walk = NoneResult
             THEN [encodings |-> encodings, raised |-> "TypeError"]
             ELSE [encodings |-> (enc_name :> WithBase12(walk, b12))
                                     @@ encodings,
                   raised |-> "none"]
    ELSE [encodings |-> encodings, raised |-> "none"]

\* a DNA string of len letters in which the share of G and C drifts
DnaPattern(len, a, b) ==
    [i \in 1..len |-> bases[((a + b * i + (i \div 5)) % 4) + 1]]

\* the sequences fetch_ncbi_sequence returns and `if seq:` keeps: non-empty
\* strings over ACGT, short ones and ones of the length of a window and more
DnaSeqs ==
    (SeqsUpTo({"A", "C", "G", "T"}, MaxShort) \ {<<>>})
    \cup {DnaPattern(len, a, b) :
            len \in {3, 5, 6} \cup ((GC_WINDOW - 1)..(GC_WINDOW + MaxExtra)),
            a \in {0, 1}, b \in {1, 3}}

InitDna ==
    /\ NoWalk
    /\ \E s1 \in DnaSeqs :
         \E rest \in {<<>>, << <<"G">> >>, <<DnaPattern(GC_WINDOW, 0, 1)>>} :
           run = [pc |-> "new", sequences |-> <<s1>> \o rest, i |-> 1,
                  results |-> <<>>, raised |-> "none"]

\* the sequence of the current iteration
CurrentSeq == run.sequences[run.i]

\* results[name] = {'accession': ..., 'length': len(seq), 'encodings': {}}
NewResult ==
    /\ run.pc = "new"
    /\ run.i <= Len(run.sequences)
    /\ run' = [run EXCEPT !.pc = "codon",
                          !.results = Append(@, [length |-> Len(CurrentSeq),
                                                 encodings |-> <<>>])]
    /\ UNCHANGED walkVars

\* one encoding block of the loop body
EncodingBlock(at, enc_name, b12, then) ==
    /\ run.pc = at
    /\ LET r == store_encoding(run.results[run.i].encodings, enc_name, b12)
       IN  run' = [run EXCEPT
                     !.pc = IF r.raised # "none" THEN "aborted" ELSE then,
                     !.raised = r.raised,
                     !.results[run.i].encodings = r.encodings,
                     !.i = IF r.raised = "none" /\ then = "new"
                           THEN @ + 1 ELSE @]
    /\ UNCHANGED walkVars

EncodeCodon ==
    EncodingBlock("codon", "codon_hydro", dna_to_base12_codon(CurrentSeq),
                  "dinuc")

EncodeDinucleotide ==
    EncodingBlock("dinuc", "dinucleotide", dna_to_base12_dinuc(CurrentSeq),
                  "gc")

EncodeGcWindow ==
    EncodingBlock("gc", "gc_window",
                  dna_to_base12_gc_window(CurrentSeq, GC_WINDOW), "new")

\* the loop is over
EndOfLoop ==
    /\ run.pc = "new"
    /\ run.i > Len(run.sequences)
    /\ run' = [run EXCEPT !.pc = "done"]
    /\ UNCHANGED walkVars

NextDna ==
    \/ NewResult
    \/ EncodeCodon
    \/ EncodeDinucleotide
    \/ EncodeGcWindow
    \/ EndOfLoop

SpecDna == InitDna /\ [][NextDna]_vars

(***************************************************************************)
(* What the latest move call did.                                          *)
(***************************************************************************)
\* the command mapping[direction % 12] of the latest call (valid mapping)
Command == mapping[digit_index(direction) + 1]

\* in an action: this step is a move call
IsMoveStep == ncalls' = ncalls + 1

LastPoint == path[Len(path)]
PrevPoint == path[Len(path) - 1]

\* rounding error, in units of 2^-FracBits, that an orientation entry can
\* have accumulated after at most MaxSteps compositions
Ulps == 2 * (MaxSteps + 1)

MatNear(a, b, tol) ==
    \A i \in 1..3 : \A j \in 1..3 : Abs(a[i][j] - b[i][j]) <= tol

\* |v|^2 of a vector whose entries are within Ulps of a unit vector's
\* differs from 1 by at most 2*sqrt(3)*Ulps + 3*Ulps^2 units (scaled)
UnitTol == 4 * Scale * Ulps

(***************************************************************************)
(* Claims about one Turtle3D (specification Spec).                         *)
(***************************************************************************)

\* C1 (as stated): a rotation step turns about the turtle's own local axis:
\* the new orientation is the 15-degree rotation about the world image R(a)
\* of the table axis a, composed after the old orientation R (up to rounding).
C1_LocalFrameTurn ==
    [][(IsMoveStep /\ Command' >= 6) =>
         MatNear(rotation',
                 Rotation_mul(
                     Rotation_from_rotvec(
                         Rotation_apply(rotation, axes[Command' - 6 + 1])),
                     rotation),
                 Ulps)]_vars

\* C2: a rotation step sets the orientation to delta * R, delta the 15-degree
\* rotation about the fixed table axis axes[c - 6], R applied first.
C2_DeltaThenOld ==
    [][(IsMoveStep /\ Command' >= 6) =>
         rotation' =
             Rotation_mul(
                 Rotation_from_rotvec(ScaleVec(axes[Command' - 6 + 1])),
                 rotation)]_vars

\* a rotation step has been taken from an orientation turned about another
\* axis: no row or column of the orientation is an axis any more
C2_Witness ==
    /\ ncalls >= 2
    /\ Command >= 6
    /\ \A i \in 1..3 : \A j \in 1..3 : Abs(rotation[i][j]) # Scale

\* C3: after n move calls on a fresh Turtle3D the path has n + 1 entries.
C3_PathLength == Len(path) = ncalls + 1

\* three calls, among them a turn (no displacement) and a translation
C3_Witness ==
    /\ ncalls = 3
    /\ Len(path) = 4
    /\ path[2] = path[1]
    /\ path[4] # path[3]

\* C7: from any turtle state, move(d), move(d + 12) and move(d - 12) lead to
\* the same position, orientation and path, for the digit d of any step.
C7_ModuloWraparound ==
    [][IsMoveStep =>
         /\ self_' = move(self_, direction', mapping)
         /\ move(self_, direction' + 12, mapping) = self_'
         /\ move(self_, direction' - 12, mapping) = self_']_vars

\* a negative digit has been consumed by a step, after an earlier step
C7_Witness ==
    /\ ncalls >= 2
    /\ direction < 0
    /\ Len(path) = ncalls + 1

\* C8: a step whose command is >= 6 appends a point equal to the previous
\* one.
C8_RotationKeepsPosition ==
    (ncalls >= 1 /\ Command >= 6) =>
        (LastPoint = PrevPoint /\ position = PrevPoint)

\* a turn taken away from the origin
C8_Witness ==
    /\ ncalls >= 2
    /\ Command >= 6
    /\ LastPoint # <<0, 0, 0>>
    /\ LastPoint = PrevPoint

\* C9: a translation step (c < 6) at position p and orientation R leads to
\* position p + R(v), v the c-th local unit vector, orientation unchanged.
C9_TranslationStep ==
    [][(IsMoveStep /\ Command' < 6) =>
         /\ position' =
                VecAdd(position,
                       Rotation_apply(rotation, local_dirs[Command' + 1]))
         /\ rotation' = rotation]_vars

\* a translation taken in a turned frame: the displacement is along no
\* world axis
C9_Witness ==
    /\ ncalls >= 2
    /\ Command < 6
    /\ \A k \in 1..6 : VecAdd(PrevPoint, ScaleVec(local_dirs[k])) # LastPoint

\* C10 (as stated): a translation step moves the turtle by a distance of
\* exactly 1.
C10_ExactUnitStep ==
    (ncalls >= 1 /\ Command < 6) => DistSq(LastPoint, PrevPoint) = Scale * Scale

\* C10 (amended): a translation step moves the turtle by a distance of 1 up
\* to the rounding accumulated in the orientation.
C10_NearUnitStep ==
    (ncalls >= 1 /\ Command < 6) =>
        Abs(DistSq(LastPoint, PrevPoint) - Scale * Scale) <= UnitTol

\* a translation after two turns, by a distance that is not exactly 1
C10_Witness ==
    /\ ncalls >= 3
    /\ Command < 6
    /\ path[Len(path) - 1] = path[Len(path) - 3]
    /\ DistSq(LastPoint, PrevPoint) # Scale * Scale

\* C17: with a well-formed mapping every move call succeeds, whatever the
\* integer digit (negative, 0..11 or above 11) and whatever the state: no
\* walk ever raises.
C17_Totality == raised = "none"

\* a walk that completed with a negative digit mapped to the last command
C17_Witness ==
    /\ ncalls = MaxSteps
    /\ direction < 0
    /\ Command = 11
    /\ raised = "none"
    /\ Len(path) = MaxSteps + 1

\* transpose(r) * r, entry (i, j), at scale Scale^2
GramEntry(r, i, j) == r[1][i] * r[1][j] + r[2][i] * r[2][j] + r[3][i] * r[3][j]

\* the determinant at scale Scale^2: each cofactor is brought back to scale
\* Scale before it is multiplied by the entry of the first row
Det(r) ==
      r[1][1] * RoundDiv(r[2][2] * r[3][3] - r[2][3] * r[3][2], Scale)
    - r[1][2] * RoundDiv(r[2][1] * r[3][3] - r[2][3] * r[3][1], Scale)
    + r[1][3] * RoundDiv(r[2][1] * r[3][2] - r[2][2] * r[3][1], Scale)

\* C19: after any sequence of steps the orientation is a proper rotation
\* within the numerical tolerance: its columns are orthonormal (so it
\* preserves lengths) and its determinant is +1.
C19_ProperRotation ==
    ncalls >= 1 =>
        /\ \A i \in 1..3 : \A j \in 1..3 :
             Abs(GramEntry(rotation, i, j)
                 - (IF i = j THEN Scale * Scale ELSE 0)) <= UnitTol
        /\ Abs(Det(rotation) - Scale * Scale) <= UnitTol

\* turns about three different axes have been composed
C19_Witness ==
    /\ ncalls = 3
    /\ Len(path) = 4
    /\ LastPoint = <<0, 0, 0>>
    /\ \A i \in 1..3 : \A j \in 1..3 : i # j => rotation[i][j] # 0

(***************************************************************************)
(* Claims about malformed mappings (specification SpecAnyMapping).         *)
(***************************************************************************)

\* C6 (as stated): with a malformed mapping every move call raises instead
\* of appending a path point.
C6_MalformedFailsFast ==
    (~IsValidMapping(mapping) /\ ncalls >= 1) =>
        (raised # "none" /\ Len(path) = 1)

(***************************************************************************)
(* Claims about the walk entry points (specification SpecCW).              *)
(***************************************************************************)

\* C4 (as stated): the subsampled list base12_seq[::step] handed to the
\* engine has at most max_points digits.
C4_AtMostMaxPoints == Len(seq) <= max_points

\* C5 (as stated): on an empty digit sequence every entry point returns a
\* path of exactly one point, the origin, and none returns an absent result.
C5_EmptyYieldsOrigin ==
    (pc = "done" /\ base12_seq = <<>>) =>
        /\ raised = "none"
        /\ result.value = "dict"
        /\ path = << <<0, 0, 0>> >>

\* C5 (amended): on an empty digit sequence no entry point raises;
\* compute_walk returns the one-point path [origin]; compute_walk_features
\* returns None.
C5_EmptyWalk ==
    (pc = "done" /\ base12_seq = <<>>) =>
        /\ raised = "none"
        /\ entry = "compute_walk" =>
               result = WalkDict(<< <<0, 0, 0>> >>, <<>>)
        /\ entry = "compute_walk_features" => result = NoneResult

\* compute_walk has returned from a call on the empty sequence
C5_Witness ==
    /\ pc = "done"
    /\ base12_seq = <<>>
    /\ entry = "compute_walk"
    /\ result.value = "dict"

(***************************************************************************)
(* Claims about the subsampling of compute_walk (specification SpecCW).    *)
(***************************************************************************)

\* the stride the claim states, max(1, floor(L / max_points))
StatedStride ==
    IF Len(base12_seq) \div max_points >= 1
    THEN Len(base12_seq) \div max_points
    ELSE 1

\* the indices 0, s, 2s, ... below the input length
StatedIndices == {i \in 0..(Len(base12_seq) - 1) : i % StatedStride = 0}

\* C16: with s = max(1, floor(L / max_points)), the k-th move call of the
\* walk receives the input element at index (k - 1) * s, the path has one
\* point per call plus the origin, and when the walk returns there has been
\* exactly one call for each of the indices 0, s, 2s, ... below L.
C16_StrideFeedsInOrder ==
    (pc \in {"loop", "done"} /\ result # NoneResult) =>
        /\ ncalls >= 1 =>
             /\ (ncalls - 1) * StatedStride \in StatedIndices
             /\ direction = base12_seq[(ncalls - 1) * StatedStride + 1]
        /\ Len(path) = ncalls + 1
        /\ pc = "done" => ncalls = Cardinality(StatedIndices)

\* a walk that returned after feeding every third digit of a longer input
C16_Witness ==
    /\ pc = "done"
    /\ result.value = "dict"
    /\ StatedStride = 3
    /\ ncalls = 3
    /\ direction = base12_seq[7]
    /\ direction # base12_seq[6]

\* C18 (as stated): the dict compute_walk returns holds in base12 exactly
\* the digits passed to move, so that points has one entry more than base12.
C18_Base12IsConsumed ==
    (pc = "done" /\ entry = "compute_walk") =>
        /\ result.base12 = seq
        /\ Len(result.points) = Len(result.base12) + 1

\* C18 (amended): the dict compute_walk returns holds in base12 the whole
\* input sequence, subsampled or not, and in points the path of the digits
\* passed to move: points has one entry more than the subsampled list, and
\* one more than base12 exactly when nothing was dropped.
C18_Base12IsInput ==
    (pc = "done" /\ entry = "compute_walk") =>
        /\ result.base12 = base12_seq
        /\ result.points = path
        /\ Len(result.points) = Len(seq) + 1
        /\ (Len(result.points) = Len(result.base12) + 1) <=> (seq = base12_seq)

\* compute_walk has returned from a call in which the stride dropped digits
C18_Witness ==
    /\ pc = "done"
    /\ entry = "compute_walk"
    /\ StatedStride > 1
    /\ Len(result.base12) = MaxLen
    /\ Len(result.points) < Len(result.base12)

(***************************************************************************)
(* Claims about Turtle3D objects sharing an interpreter (specification     *)
(* SpecTwo).                                                               *)
(***************************************************************************)

Turtles == DOMAIN turtles

\* the points a turtle's path holds now
PathOf(i) == View(heap, turtles[i]).path

\* the mapped command of every digit of ds
Relabel(ds, m) == [k \in 1..Len(ds) |-> m[digit_index(ds[k]) + 1]]

\* C11: whatever steps a Turtle3D has taken, in the class that rebinds the
\* position and in the one that updates it in place, path[0] is (0,0,0).
C11_OriginFirst ==
    \A i \in Turtles : heap[turtles[i].path[1]] = <<0, 0, 0>>

\* a turtle of the in-place class that has translated away from the origin
C11_Witness ==
    \E i \in Turtles :
        /\ turtles[i].variant = "inplace"
        /\ Len(turtles[i].fed) >= 2
        /\ heap[turtles[i].position] # <<0, 0, 0>>
        /\ heap[turtles[i].path[1]] = <<0, 0, 0>>

\* C12: a step only appends to a path: every entry a path already holds is
\* the same point after the step as before it, whichever turtle stepped.
C12_AppendOnlySnapshots ==
    [][\A i \in Turtles :
          /\ Len(turtles'[i].path) >= Len(turtles[i].path)
          /\ \A k \in 1..Len(turtles[i].path) :
                heap'[turtles'[i].path[k]] = heap[turtles[i].path[k]]]_vars

\* a turtle of the in-place class whose recorded points differ from one
\* another and from the origin: the position array was written twice
C12_Witness ==
    \E i \in Turtles :
        /\ turtles[i].variant = "inplace"
        /\ Len(turtles[i].path) = 3
        /\ PathOf(i)[2] # <<0, 0, 0>>
        /\ PathOf(i)[3] # PathOf(i)[2]
        /\ PathOf(i)[3] # <<0, 0, 0>>

\* C13: the path of a turtle is a function of the digits it was given and
\* of its mapping alone: it is the walk of these digits under this mapping,
\* and two turtles given the same digits and mapping hold the same path.
C13_Determinism ==
    /\ \A i \in Turtles :
         PathOf(i) = Walk(turtles[i].fed, turtles[i].mapping).path
    /\ \A i \in Turtles : \A j \in Turtles :
         (turtles[i].fed = turtles[j].fed
          /\ turtles[i].mapping = turtles[j].mapping)
         => PathOf(i) = PathOf(j)

\* two turtles have walked the same two digits under the same mapping
C13_Witness ==
    /\ Turtles = 1..2
    /\ turtles[1].fed = turtles[2].fed
    /\ turtles[1].mapping = turtles[2].mapping
    /\ Len(turtles[1].fed) = 2
    /\ PathOf(1)[3] # <<0, 0, 0>>

\* C14: however the steps of two turtles are interleaved, each turtle
\* holds the position, orientation and path it holds when it runs alone,
\* and a step of one turtle changes nothing the other holds.
C14_Independence ==
    /\ [](\A i \in Turtles :
            View(heap, turtles[i])
              = ViewAlone(turtles[i].variant, turtles[i].mapping,
                          turtles[i].fed))
    /\ [][\A j \in Turtles :
            turtles'[j].fed = turtles[j].fed
            => View(heap', turtles'[j]) = View(heap, turtles[j])]_vars

\* the steps of two turtles with different mappings alternated: the order
\* of allocation of their path entries shows the interleaving
C14_Witness ==
    /\ Turtles = 1..2
    /\ turtles[1].mapping # turtles[2].mapping
    /\ Len(turtles[1].path) = 3
    /\ Len(turtles[2].path) = 3
    /\ turtles[1].path[2] < turtles[2].path[2]
    /\ turtles[2].path[2] < turtles[1].path[3]
    /\ turtles[1].path[3] < turtles[2].path[3]
    /\ PathOf(1)[3] # <<0, 0, 0>>
    /\ PathOf(2)[3] # <<0, 0, 0>>

\* C15: the path of the digits D under a mapping M is the path of the
\* relabeled digits [M[d mod 12] for d in D] under the identity mapping.
C15_MappingIsRelabeling ==
    \A i \in Turtles :
        PathOf(i) = Walk(Relabel(turtles[i].fed, turtles[i].mapping),
                         IDENTITY_MAPPING).path

\* a turtle under the spiral mapping that was given a negative digit and a
\* digit the mapping turns from a rotation into a translation
C15_Witness ==
    \E i \in Turtles :
        /\ turtles[i].mapping = SPIRAL_MAPPING
        /\ turtles[i].fed = <<-1, 6>>
        /\ Relabel(turtles[i].fed, turtles[i].mapping) = <<11, 1>>
        /\ PathOf(i)[3] # <<0, 0, 0>>

\* the 15 degree rotation about the world X axis
RotX15 ==
    << <<Scale, 0, 0>>, <<0, Cos15, 0 - Sin15>>, <<0, Sin15, Cos15>> >>

\* C20: a fresh turtle given the digits [0, 6] under the identity mapping
\* holds the path [(0,0,0), (1,0,0), (1,0,0)] and the orientation of a 15
\* degree rotation about the world X axis.
C20_Scenario ==
    \A i \in Turtles :
        (turtles[i].fed = <<0, 6>> /\ turtles[i].mapping = IDENTITY_MAPPING)
        => /\ PathOf(i) = << <<0, 0, 0>>, <<Scale, 0, 0>>, <<Scale, 0, 0>> >>
           /\ MatNear(turtles[i].rotation, RotX15, 1)
           /\ turtles[i].raised = "none"

\* a turtle has run the scenario
C20_Witness ==
    \E i \in Turtles :
        /\ turtles[i].fed = <<0, 6>>
        /\ turtles[i].mapping = IDENTITY_MAPPING
        /\ Len(turtles[i].path) = 3

(***************************************************************************)
(* Claims about the mapping tables (specification Spec).                   *)
(***************************************************************************)

\* the slots in which a mapping differs from the identity
MovedSlots(m) == {k \in 0..11 : m[k + 1] # k}

\* C21: the mapping a caller uses is one of the three tables, each of
\* length 12 with every value of 0..11 exactly once; OPTIMAL_MAPPING sends
\* the digits 0..5 to translations and 6..11 to rotations and differs from
\* the identity in two rotation slots only, which it exchanges.
C21_MappingsAreBijections ==
    /\ mapping \in {IDENTITY_MAPPING, OPTIMAL_MAPPING, SPIRAL_MAPPING}
    /\ Len(mapping) = 12
    /\ {mapping[k] : k \in 1..12} = 0..11
    /\ IDENTITY_MAPPING = [k \in 1..12 |-> k - 1]
    /\ mapping = OPTIMAL_MAPPING =>
         /\ \A k \in 0..5 : mapping[k + 1] = k
         /\ \A k \in 6..11 : mapping[k + 1] \in 6..11
         /\ \E a \in 6..11 : \E b \in 6..11 :
              /\ a # b
              /\ MovedSlots(mapping) = {a, b}
              /\ mapping[a + 1] = b
              /\ mapping[b + 1] = a

\* a walk under OPTIMAL_MAPPING took digit 8 and turned by command 10
C21_Witness ==
    /\ mapping = OPTIMAL_MAPPING
    /\ ncalls >= 2
    /\ direction = 8
    /\ Command = 10
    /\ LastPoint = PrevPoint

(***************************************************************************)
(* Claims about rotation pairs (specification Spec).                       *)
(***************************************************************************)

\* the turtle after the commands a and b, in this order
AfterPair(self, a, b) ==
    move(move(self, a, IDENTITY_MAPPING), b, IDENTITY_MAPPING)

\* the pairs of opposite rotation commands, in both orders
OppositePairs ==
    {<<6 + 2 * k, 7 + 2 * k>> : k \in 0..2}
        \cup {<<7 + 2 * k, 6 + 2 * k>> : k \in 0..2}

\* C29 (as stated): from any state, two opposite rotation commands in a row
\* give back exactly the orientation the turtle had.
C29_ExactCancel ==
    \A pr \in OppositePairs :
        AfterPair(self_, pr[1], pr[2]).rotation = rotation

\* C29 (amended): from any state, two opposite rotation commands in a row
\* leave the position exactly where it was, append it twice to the path, and
\* give back the orientation within the numerical tolerance.
C29_NearCancel ==
    \A pr \in OppositePairs :
        LET after == AfterPair(self_, pr[1], pr[2]) IN
        /\ after.raised = "none"
        /\ after.position = position
        /\ after.path = path \o <<position, position>>
        /\ MatNear(after.rotation, rotation, Ulps)

\* the digits 10 and 11 were walked from the start under the identity
\* mapping: three turns about other axes are far from the identity
C29_Witness ==
    /\ mapping = IDENTITY_MAPPING
    /\ ncalls = 2
    /\ direction = 11
    /\ path = << <<0, 0, 0>>, <<0, 0, 0>>, <<0, 0, 0>> >>
    /\ MatNear(rotation, Rotation_identity, Ulps)

(***************************************************************************)
(* Claims about the inputs of a walk (specification SpecCW).               *)
(***************************************************************************)

\* C23: no step of a walk computation changes the caller's digit sequence
\* or the mapping it passed; the default put in place of mapping=None is a
\* binding of the local name, and the dict returned holds the input digits.
C23_InputsUnchanged ==
    [][/\ base12_seq' = base12_seq
       /\ mapping # NoMapping => mapping' = mapping
       /\ (pc' = "done" /\ entry = "compute_walk") =>
              result'.base12 = base12_seq]_vars

\* a walk under a caller's mapping has returned after dropping digits
C23_Witness ==
    /\ pc = "done"
    /\ mapping = OPTIMAL_MAPPING
    /\ Len(base12_seq) = MaxLen
    /\ Len(seq) < Len(base12_seq)
    /\ ncalls = Len(seq)

(***************************************************************************)
(* Claims about the two texts of class Turtle3D (specification SpecTwo).   *)
(***************************************************************************)

\* the other class text
OtherVariant(v) == IF v = "rebind" THEN "inplace" ELSE "rebind"

\* C22: a turtle of either class holds the path, the position and the
\* orientation that a turtle of the other class holds after the same digits
\* under the same mapping.
C22_VariantsEquivalent ==
    /\ \A i \in Turtles :
         View(heap, turtles[i])
           = ViewAlone(OtherVariant(turtles[i].variant), turtles[i].mapping,
                       turtles[i].fed)
    /\ \A i \in Turtles : \A j \in Turtles :
         (turtles[i].fed = turtles[j].fed
          /\ turtles[i].mapping = turtles[j].mapping
          /\ turtles[i].variant # turtles[j].variant)
         => View(heap, turtles[i]) = View(heap, turtles[j])

\* a turtle of each class has turned and then translated on the same digits
C22_Witness ==
    /\ Turtles = 1..2
    /\ turtles[1].variant = "rebind"
    /\ turtles[2].variant = "inplace"
    /\ turtles[1].mapping = IDENTITY_MAPPING
    /\ turtles[2].mapping = IDENTITY_MAPPING
    /\ turtles[1].fed = <<-1, 0>>
    /\ turtles[2].fed = <<-1, 0>>
    /\ PathOf(2)[3] # <<Scale, 0, 0>>
    /\ PathOf(2)[3] # <<0, 0, 0>>

(***************************************************************************)
(* Claims about the encoders (specification SpecEncode).                   *)
(***************************************************************************)

\* C25: every digit an integer encoder returns is in 0..11: the pitch
\* classes of MIDI notes of either sign, the di-nucleotide digits of a DNA
\* string, the digits of an L-system string, and the 4-bit windows of the
\* Fibonacci word and of the Thue-Morse sequence.
C25_DigitsInRange ==
    run.pc = "encoded" =>
        \A k \in 1..Len(run.base12) : run.base12[k] \in 0..11

\* a negative MIDI note has been encoded as the pitch class 11
C25_Witness ==
    /\ run.pc = "encoded"
    /\ run.encoder = "midi_to_base12"
    /\ Len(run.source) = MaxNotes
    /\ run.source[1] = -1
    /\ run.base12[1] = 11

\* C26 (as stated): a digit list of more than 10000 digits is replaced in
\* generate_fractals by a list of at most 10000 digits.
C26_FractalCapHolds ==
    (run.pc = "encoded" /\ run.encoder = "generate_fractals"
        /\ Len(run.source) > FractalCap)
    => Len(run.base12) <= FractalCap

(***************************************************************************)
(* Claims about the download scripts (specification SpecDownload).         *)
(***************************************************************************)

InDownloadScript == run.script \in DownloadScripts

\* the sources whose download and decoding succeeded with a digit stream
\* that passes the script's length test
Succeeded ==
    {run.attempted[k] : k \in
        {j \in 1..Len(run.attempted) :
            /\ run.outcomes[j].kind \notin {"net_error", "read_error"}
            /\ passes(run.script, run.outcomes[j].n)}}

\* C24 (as stated): a source that fails is skipped and the run goes on: no
\* source ends the run, every source of the table has been attempted in
\* order when the loop is over, and the dict holds exactly the sources that
\* were downloaded with a digit stream passing the length test.
C24_CatchAndSkip ==
    InDownloadScript =>
        /\ run.pc # "aborted"
        /\ run.attempted = [k \in 1..Len(run.attempted) |-> k]
        /\ run.pc = "done" =>
             /\ Len(run.attempted) = NumSources
             /\ run.data = Succeeded

C28_TempFilesDeleted ==
    InDownloadScript => run.temp = {}

(***************************************************************************)
(* Claims about the main loop of dna_walk_base12.py (specification         *)
(* SpecDna).                                                               *)
(***************************************************************************)

\* the digits of the encoding enc_name of a sequence
DigitsOf(sequence, enc_name) ==
    IF enc_name = "codon_hydro" THEN dna_to_base12_codon(sequence)
    ELSE IF enc_name = "dinucleotide" THEN dna_to_base12_dinuc(sequence)
    ELSE dna_to_base12_gc_window(sequence, GC_WINDOW)

\* the encodings whose block has run for the k-th sequence
BlocksRun(k) ==
    IF k < run.i \/ run.pc = "done"
    THEN {"codon_hydro", "dinucleotide", "gc_window"}
    ELSE IF run.pc = "dinuc" THEN {"codon_hydro"}
    ELSE IF run.pc = "gc" THEN {"codon_hydro", "dinucleotide"}
    ELSE {}

\* C30: the loop never subscripts None: no TypeError is raised; an encoding
\* is stored for a sequence exactly when its block has run and it yielded
\* digits, and a stored encoding holds these digits and a path of
\* path_length + 1 points.
C30_GuardedFeatures ==
    /\ run.raised = "none"
    /\ run.pc # "aborted"
    /\ \A k \in 1..Len(run.results) :
         LET encodings == run.results[k].encodings IN
         /\ DOMAIN encodings
              = {e \in BlocksRun(k) : DigitsOf(run.sequences[k], e) # <<>>}
         /\ \A e \in DOMAIN encodings :
              /\ encodings[e].value = "dict"
              /\ encodings[e].base12 = DigitsOf(run.sequences[k], e)
              /\ Len(encodings[e].path) = encodings[e].path_length + 1

\* the loop is over a sequence too short for a window: its codon and
\* di-nucleotide walks are stored, its GC walk is omitted
C30_Witness ==
    /\ run.pc = "done"
    /\ Len(run.sequences[1]) = GC_WINDOW - 1
    /\ DOMAIN run.results[1].encodings = {"codon_hydro", "dinucleotide"}
    /\ run.results[1].encodings["dinucleotide"].path_length = GC_WINDOW - 2

=============================================================================
